---- MODULE Spec2Model ----
(***************************************************************************)
(* Model of streamlit_app.py: the pipeline that writes a mapping of        *)
(* relative paths to text onto disk (create_file_structure), zips the      *)
(* output folder (create_zip_file) and runs the external Gradle build      *)
(* (build_apk), driven by the "Generate Android App Code" button handler.  *)
(*                                                                         *)
(* A path is the sequence of its components: "a/b" is <<"a","b">>, "a/" is  *)
(* <<"a","">>, and an absolute path begins with the component "/".  A      *)
(* relative path is relative to the working directory of the process.  A   *)
(* node is the sequence of names                                           *)
(* from the root directory "/" (the node <<>>) down to a directory or a    *)
(* file; the working directory is the node Cwd.  The file system is a      *)
(* function from the nodes that exist to DirMark (a directory) or to the   *)
(* text a regular file holds, a sequence of characters.                    *)
(***************************************************************************)
EXTENDS Naturals, Sequences, FiniteSets, Bags, TLC

VARIABLES
    fs,         \* the file system
    pc,         \* pc[s]: where session s's run of the button handler stands
    literal,    \* the dict literal of lines 80-172, the same in every run
    app_code,   \* app_code[s]: the FileSet of the run, in dict insertion order
    idx,        \* idx[s]: index of the next entry the loop of create_file_structure writes
    zip_file,   \* zip_file[s]: the entries of the archive of create_zip_file, as a bag
    walking,    \* walking[s]: what the os.walk of create_zip_file has listed and not yet used
    opened,     \* opened[s]: the file the open of line 17 returned, not yet closed
    making,     \* making[s]: where the os.makedirs of line 16 stands
    zipped,     \* zipped[s]: create_zip_file has returned in this run
    offered,    \* offered[s]: the download buttons rendered in this run
    apk_path,   \* apk_path[s]: what build_apk returned
    shown,      \* shown[s]: the st.error / st.success messages of this run
    outcome,    \* outcome[s]: what the external build did in this run (environment)
    builds,     \* builds[s]: how many times this run started the build command
    start,      \* start[s]: the output folder held nothing when this run called create_file_structure
    root,       \* driver only: the folder handed to create_zip_file
    first       \* driver only: the file system after the first of two identical calls

vars == <<fs, pc, literal, app_code, idx, zip_file, walking, opened, making, zipped,
          offered, apk_path, shown, outcome, builds, start, root, first>>

----------------------------------------------------------------------------
(* Bounds of the model and the input alphabet. *)

MaxEntries == 2
MaxConcEntries == 2
MaxSetupEntries == 1

\* What the file system holds for a directory: no text of characters.
DirMark == <<"<dir>">>

\* The texts of the FileSets, of two lengths.
Contents == { <<"x">>, <<"y", "y">> }
Up == ".."
Dot == "."
\* The empty component: what follows the last "/" of "a/".
NoName == ""
\* The first component of an absolute path.
Root == "/"

\* The keys the FileSets are drawn from: plain names, a path whose first
\* component is also a key, a path that climbs out of the output folder and
\* of the working directory, a path that climbs inside the folder, "./a",
\* "a/" and the absolute "/a".
Keys == { <<"a">>, <<"b">>, <<"a", "b">>, <<Up, Up, "a">>, <<"a", Up, "b">>,
          <<Dot, "a">>, <<"a", NoName>>, <<Root, "a">> }

Entries == [key : Keys, content : Contents]

DistinctKeys(F) == \A i, j \in DOMAIN F : i # j => F[i].key # F[j].key

FileSetsUpTo(n) ==
    UNION { { F \in [1..k -> Entries] : DistinctKeys(F) } : k \in 0..n }

FileSets == FileSetsUpTo(MaxEntries)

Sessions == {1, 2}

----------------------------------------------------------------------------
(* The file system. *)

Front(p) == SubSeq(p, 1, Len(p) - 1)
Last(p) == p[Len(p)]

\* The working directory of the process, below the root directory.
Cwd == <<"srv", "work">>

\* The working directory holds nothing yet.
FreshDisk == [n \in { SubSeq(Cwd, 1, k) : k \in 0..Len(Cwd) } |-> DirMark]

Exists(disk, node) == node \in DOMAIN disk
IsDirNode(disk, node) == node \in DOMAIN disk /\ disk[node] = DirMark
IsFileNode(disk, node) == node \in DOMAIN disk /\ disk[node] # DirMark

\* ".." of a directory is the directory above it; ".." of "/" is "/".
Parent(node) == IF node = <<>> THEN <<>> ELSE Front(node)

\* "." and the empty component stay in the directory.
Step(node, comp) ==
    IF comp = Up THEN Parent(node)
    ELSE IF comp \in {Dot, NoName} THEN node
    ELSE Append(node, comp)

\* Path resolution as the kernel does it: every component is looked up in the
\* directory the components before it lead to, which has to exist and be a
\* directory; the node the last component names need not exist.
RECURSIVE Namei(_, _, _)
Namei(disk, node, comps) ==
    IF comps = <<>> THEN [err |-> "", at |-> node]
    ELSE IF ~Exists(disk, node) THEN [err |-> "ENOENT", at |-> <<>>]
    ELSE IF ~IsDirNode(disk, node) THEN [err |-> "ENOTDIR", at |-> <<>>]
    ELSE Namei(disk, Step(node, Head(comps)), Tail(comps))

IsAbs(path) == path # <<>> /\ Head(path) = Root

\* A relative path is resolved from the working directory, an absolute one
\* from "/".
Resolve(disk, path) ==
    IF IsAbs(path) THEN Namei(disk, <<>>, Tail(path)) ELSE Namei(disk, Cwd, path)

\* A path without the slash at its end.
Strip(path) == IF Len(path) > 1 /\ Last(path) = NoName THEN Front(path) ELSE path

\* os.path.exists / os.path.isdir: a stat that fails counts as "no".
path_exists(disk, path) ==
    LET r == Resolve(disk, path) IN r.err = "" /\ Exists(disk, r.at)

path_isdir(disk, path) ==
    LET r == Resolve(disk, path) IN r.err = "" /\ IsDirNode(disk, r.at)

\* mkdir(2); a slash at the end of the path makes no difference to it.
mkdir(disk, path) ==
    LET p == Strip(path)
        r == Resolve(disk, Front(p))
    IN  IF p = <<>> \/ p = <<NoName>> THEN [err |-> "ENOENT", disk |-> disk]
        ELSE IF r.err # "" THEN [err |-> r.err, disk |-> disk]
        ELSE IF ~Exists(disk, r.at) THEN [err |-> "ENOENT", disk |-> disk]
        ELSE IF ~IsDirNode(disk, r.at) THEN [err |-> "ENOTDIR", disk |-> disk]
        ELSE IF Last(p) \in {Up, Dot, Root} \/ Exists(disk, Append(r.at, Last(p)))
             THEN [err |-> "EEXIST", disk |-> disk]
        ELSE [err |-> "", disk |-> (Append(r.at, Last(p)) :> DirMark) @@ disk]

\* makedirs as it would be with exist_ok left at its default, False: a leaf
\* that is already there raises.
RECURSIVE makedirs_strict(_, _, _)
makedirs_strict(disk, name, exist_ok) ==
    LET head == Front(Strip(name))
        climbs == head # <<>> /\ ~path_exists(disk, head)
    IN  CHOOSE done \in
            { IF up.err \notin {"", "EEXIST"} THEN up
              ELSE IF climbs /\ Last(Strip(name)) = Dot
                   THEN [err |-> "", disk |-> up.disk]
              ELSE mkdir(up.disk, name) :
                up \in { IF climbs THEN makedirs_strict(disk, head, exist_ok)
                         ELSE [err |-> "", disk |-> disk] } } : TRUE

\* os.makedirs(name, exist_ok): head and tail are split off the name without
\* the slash at its end; the missing ancestors first (a FileExistsError from
\* that recursion is passed over), and after them nothing more if the tail is
\* "."; then mkdir of the leaf, whose OSError is passed over when exist_ok is
\* set and the leaf is a directory.
RECURSIVE makedirs(_, _, _)
makedirs(disk, name, exist_ok) ==
    LET head == Front(Strip(name))
        climbs == head # <<>> /\ ~path_exists(disk, head)
    IN  CHOOSE done \in
            { IF up.err \notin {"", "EEXIST"} THEN up
              ELSE IF climbs /\ Last(Strip(name)) = Dot
                   THEN [err |-> "", disk |-> up.disk]
              ELSE LET m == mkdir(up.disk, name) IN
                   IF m.err # "" /\ exist_ok /\ path_isdir(up.disk, name)
                   THEN [err |-> "", disk |-> up.disk]
                   ELSE m :
                up \in { IF climbs THEN makedirs(disk, head, exist_ok)
                         ELSE [err |-> "", disk |-> disk] } } : TRUE

\* The text of a file that has been created or truncated and not written.
NoText == <<>>
NoNode == <<>>

\* A call of os.makedirs in progress: `names` are the arguments of the calls
\* on the stack, the innermost last; `rose` says that the innermost call has
\* made its own recursive call, `err` is the error of its mkdir.
NoMaking == [names |-> <<>>, rose |-> FALSE, err |-> ""]

\* open(file_path, "w"): the file is created, or cut to nothing if it is
\* there; `at` is the file the descriptor stands for.  A path that ends in a
\* slash is refused as a directory whatever it names; one that ends in "." or
\* in ".." names a directory, which cannot be opened to be written.
open_w(disk, path) ==
    LET r == Resolve(disk, Front(path)) IN
    IF path = <<>> THEN [err |-> "ENOENT", disk |-> disk, at |-> NoNode]
    ELSE IF r.err # "" THEN [err |-> r.err, disk |-> disk, at |-> NoNode]
    ELSE IF Last(path) = NoName
         THEN [err |-> "EISDIR", disk |-> disk, at |-> NoNode]
    ELSE IF ~Exists(disk, r.at) THEN [err |-> "ENOENT", disk |-> disk, at |-> NoNode]
    ELSE IF ~IsDirNode(disk, r.at) THEN [err |-> "ENOTDIR", disk |-> disk, at |-> NoNode]
    ELSE IF Last(path) \in {Up, Dot, Root} \/ IsDirNode(disk, Append(r.at, Last(path)))
         THEN [err |-> "EISDIR", disk |-> disk, at |-> NoNode]
    ELSE [err |-> "",
          disk |-> (Append(r.at, Last(path)) :> NoText) @@ disk,
          at |-> Append(r.at, Last(path))]

\* A text written at offset 0 over what a file holds: what the file held
\* beyond the end of the new text stays.
Overwrite(old, new) == new \o SubSeq(old, Len(new) + 1, Len(old))

\* f.write(content) and the close at the end of the with block: the buffered
\* text goes to the start of the open file, over whatever has been written to
\* it since the open.
write_close(disk, node, content) ==
    (node :> Overwrite(disk[node], content)) @@ disk

\* open(file_path, "w"), f.write(content) and the close with nothing between
\* them.
open_write(disk, path, content) ==
    LET o == open_w(disk, path) IN
    IF o.err # "" THEN [err |-> o.err, disk |-> o.disk]
    ELSE [err |-> "", disk |-> write_close(o.disk, o.at, content)]

----------------------------------------------------------------------------
(* The three helpers of the pipeline. *)

output_folder == <<"generated_app">>

\* The output folder as a node of the file system.
OutDir == Cwd \o output_folder

IsBelow(node, top) == Len(node) > Len(top) /\ SubSeq(node, 1, Len(top)) = top

\* A directory with nothing in it.
EmptyFolder(disk, top) ==
    /\ top \in DOMAIN disk
    /\ disk[top] = DirMark
    /\ \A n \in DOMAIN disk : ~IsBelow(n, top)

\* os.path.join(output_folder, file_name): an absolute file_name drops the
\* folder.  os.path.dirname of the result.
path_join(folder, file_name) == IF IsAbs(file_name) THEN file_name ELSE folder \o file_name
dirname(path) == Front(path)

\* The turn of the loop as it would be without the os.makedirs of line 16.
WriteEntry_NoParents(disk, folder, entry) ==
    open_write(disk, path_join(folder, entry.key), entry.content)

\* One turn of the loop of create_file_structure: the parents, then the file.
\* A raise leaves what was made before it.
WriteEntry(disk, folder, entry) ==
    LET file_path == path_join(folder, entry.key)
        made == makedirs(disk, dirname(file_path), TRUE)
    IN  IF made.err # "" THEN made
        ELSE open_write(made.disk, file_path, entry.content)

\* os.scandir(node): the names in a directory.  The order in which the file
\* system hands them out is not fixed, so they are a set here and whoever
\* goes through them takes them in any order.
scandir(disk, node) ==
    { n \in DOMAIN disk : Len(n) = Len(node) + 1 /\ Front(n) = node }

\* The entry name as it would be if line 28 passed `file`, the bare name.
relpath_basename(node, top) == <<Last(node)>>

\* os.path.relpath(file_path, output_folder) of a file found below the folder.
relpath(node, top) == SubSeq(node, Len(top) + 1, Len(node))

\* zipf.write copies the file in reads of one buffer; the model's texts
\* count in buffers, so a read hands over one character.
ChunkLen == 1

\* One read at offset pos of a file holding text: nothing at its end.
Chunk(text, pos) ==
    SubSeq(text, pos + 1, IF pos + ChunkLen < Len(text) THEN pos + ChunkLen ELSE Len(text))

\* The reads of zipf.write up to the one that returns nothing, on a file
\* nobody writes to meanwhile.
RECURSIVE ReadOn(_, _)
ReadOn(text, data) ==
    IF Chunk(text, Len(data)) = <<>> THEN data
    ELSE ReadOn(text, data \o Chunk(text, Len(data)))

\* What zipf.write(file_path, relpath(...)) adds: the name and the text read.
ZipEntry(disk, node, top) ==
    [arcname |-> relpath(node, top), data |-> ReadOn(disk[node], NoText)]

\* The state of os.walk(top), top down: `files` are the files of the
\* directory listed last that line 25 has not come to yet, `stack` holds, for
\* each directory the walk is inside of, its subdirectories not yet entered;
\* `file` is the file zipf.write is at and `data` what it has read of it.
NoWalk == [files |-> {}, stack |-> <<>>, file |-> NoNode, data |-> NoText]

RECURSIVE Trim(_)
Trim(stack) ==
    IF stack = <<>> \/ Last(stack) # {} THEN stack ELSE Trim(Front(stack))

\* os.walk swallows the error of a top it cannot list: it yields nothing.
WalkInit(disk, folder) ==
    LET r == Resolve(disk, folder) IN
    IF r.err # "" \/ ~IsDirNode(disk, r.at) THEN NoWalk
    ELSE [NoWalk EXCEPT !.stack = << {r.at} >>]

\* The walk enters directory d, one of those pending in the innermost
\* directory, and lists it.
WalkList(disk, w, d) ==
    LET names == scandir(disk, d)
        rest == [w.stack EXCEPT ![Len(w.stack)] = @ \ {d}]
    IN  [NoWalk EXCEPT !.files = { n \in names : IsFileNode(disk, n) },
                       !.stack = Trim(Append(rest, { n \in names : IsDirNode(disk, n) }))]

WalkDone(w) == w.files = {} /\ w.stack = <<>> /\ w.file = NoNode

\* Lines 24-28 run to their end on a disk nobody else writes to.
RECURSIVE WalkRun(_, _, _, _)
WalkRun(disk, w, zip, top) ==
    IF w.files # {}
    THEN LET n == CHOOSE n \in w.files : TRUE IN
         WalkRun(disk, [w EXCEPT !.files = @ \ {n}],
                 zip (+) SetToBag({ZipEntry(disk, n, top)}), top)
    ELSE IF w.stack # <<>>
    THEN LET d == CHOOSE d \in Last(w.stack) : TRUE IN
         WalkRun(disk, WalkList(disk, w, d), zip, top)
    ELSE zip

\* create_zip_file: one entry per file the walk yields, named by its path
\* relative to the folder; the buffer is returned whatever the walk found.
create_zip_file(disk, folder) ==
    WalkRun(disk, WalkInit(disk, folder), EmptyBag, Resolve(disk, folder).at)

\* The artifact the build is expected to leave, below the output folder.
ApkRel == <<"app", "build", "outputs", "apk", "debug", "app-debug.apk">>
NoPath == <<>>

\* The command of line 36, "./gradlew" in the output folder.  The program
\* never writes it: it is there only where the deployment has put it.
GradlewRel == <<"gradlew">>
GradlewText == <<"s", "h">>

DeployedDisk ==
    LET made == makedirs(FreshDisk, output_folder, TRUE).disk IN
    open_write(made, path_join(output_folder, GradlewRel), GradlewText).disk

\* subprocess.run raises at once if the command is not there.  If it is
\* there it may still not be executable (its mode, its first line), which
\* the file system of the model does not tell.
gradlew_found(disk, folder) ==
    LET r == Resolve(disk, path_join(folder, GradlewRel)) IN
    r.err = "" /\ IsFileNode(disk, r.at)

\* How the call of subprocess.run can end: it raises (the command cannot be
\* started, or its output cannot be decoded once it has run), or the command
\* exits nonzero or with 0.
BuildOutcomes == {"raise", "nonzero", "zero"}

\* The command is not code of the program.  The model takes it to add files
\* below the folder and to write them, and to remove nothing: its artifact
\* and one by-product stand for the files it may write.
LogRel == <<"build.log">>
CommandFiles == {ApkRel, LogRel}
CommandText(rel) == IF rel = ApkRel THEN <<"k">> ELSE <<"l">>

\* The command makes the directories of one of its files and creates the
\* file, or cuts it to nothing if it is there.
CreateFile(disk, folder, rel) ==
    LET made == makedirs(disk, dirname(path_join(folder, rel)), TRUE) IN
    IF made.err # "" THEN made.disk
    ELSE open_w(made.disk, path_join(folder, rel)).disk

\* The command writes the text of one of its files that is there.
FillFile(disk, folder, rel) ==
    LET r == Resolve(disk, path_join(folder, rel)) IN
    IF r.err = "" /\ IsFileNode(disk, r.at)
    THEN write_close(disk, r.at, CommandText(rel)) ELSE disk

\* What the command has done to one of its files when it ends: nothing,
\* created it, or created and written it.
LeftOne(disk, folder, rel) ==
    { disk, CreateFile(disk, folder, rel),
      FillFile(CreateFile(disk, folder, rel), folder, rel) }

\* The folder as a command that has run can leave it.
Leavings(disk, folder) ==
    UNION { LeftOne(d, folder, LogRel) : d \in LeftOne(disk, folder, ApkRel) }

\* build_apk once subprocess.run has ended as `out`, on the disk as it is
\* when line 43 looks for the artifact: the path of the artifact, or None
\* with an st.error.
build_apk(disk, folder, out) ==
    IF out = "raise"
    THEN [ret |-> NoPath, msg |-> "Error during APK build"]
    ELSE IF out = "nonzero"
    THEN [ret |-> NoPath, msg |-> "APK build failed"]
    ELSE IF path_exists(disk, path_join(folder, ApkRel))
    THEN [ret |-> path_join(folder, ApkRel), msg |-> ""]
    ELSE [ret |-> NoPath, msg |-> "APK file not found after build."]

----------------------------------------------------------------------------
(* The button handler (lines 70-213), one session's run of it per click. *)

\* The process starts in an empty working directory, or in one where the
\* deployment has put the build command into the output folder, with no run
\* in progress.
Boot ==
    /\ fs \in {FreshDisk, DeployedDisk}
    /\ pc = [s \in Sessions |-> "Idle"]
    /\ app_code = [s \in Sessions |-> <<>>]
    /\ idx = [s \in Sessions |-> 1]
    /\ zip_file = [s \in Sessions |-> EmptyBag]
    /\ walking = [s \in Sessions |-> NoWalk]
    /\ opened = [s \in Sessions |-> NoNode]
    /\ making = [s \in Sessions |-> NoMaking]
    /\ zipped = [s \in Sessions |-> FALSE]
    /\ offered = [s \in Sessions |-> {}]
    /\ apk_path = [s \in Sessions |-> NoPath]
    /\ shown = [s \in Sessions |-> {}]
    /\ outcome = [s \in Sessions |-> "none"]
    /\ builds = [s \in Sessions |-> 0]
    /\ start = [s \in Sessions |-> FALSE]
    /\ root = output_folder
    /\ first = FreshDisk

\* The dict of lines 80-172 is a literal of the script: some FileSet, the
\* same for every run of every session.
Init ==
    /\ literal \in FileSets
    /\ Boot

\* The loop as it would be if it stopped one entry short.
AfterLoop_early(F, i) == IF i >= Len(F) THEN "Archiving" ELSE "Materializing"

\* Where the run stands once the loop of create_file_structure has written
\* the entries before i: in the loop, or past it at create_zip_file.
AfterLoop(F, i) == IF i > Len(F) THEN "Archiving" ELSE "Materializing"

\* The locals of a run that has not produced anything yet.
ClearRun(s, F) ==
    /\ app_code' = [app_code EXCEPT ![s] = F]
    /\ idx' = [idx EXCEPT ![s] = 1]
    /\ zip_file' = [zip_file EXCEPT ![s] = EmptyBag]
    /\ walking' = [walking EXCEPT ![s] = NoWalk]
    /\ opened' = [opened EXCEPT ![s] = NoNode]
    /\ making' = [making EXCEPT ![s] = NoMaking]
    /\ zipped' = [zipped EXCEPT ![s] = FALSE]
    /\ offered' = [offered EXCEPT ![s] = {}]
    /\ apk_path' = [apk_path EXCEPT ![s] = NoPath]
    /\ outcome' = [outcome EXCEPT ![s] = "none"]
    /\ builds' = [builds EXCEPT ![s] = 0]

\* Lines 70-77: the call of the text model raises; line 213 shows the error.
GenerateFails(s) ==
    /\ pc[s] = "Idle"
    /\ ClearRun(s, <<>>)
    /\ shown' = [shown EXCEPT ![s] = {"Error"}]
    /\ pc' = [pc EXCEPT ![s] = "Ending"]
    /\ start' = [start EXCEPT ![s] = EmptyFolder(fs, OutDir)]
    /\ UNCHANGED <<literal, fs, root, first>>

\* Lines 70-176: the click, the FileSet of the run, the test for the folder.
Click(s) ==
    /\ pc[s] = "Idle"
    /\ ClearRun(s, literal)
    /\ shown' = [shown EXCEPT ![s] = {}]
    /\ pc' = [pc EXCEPT ![s] = IF path_exists(fs, output_folder)
                                 THEN AfterLoop(literal, 1) ELSE "MkRoot"]
    /\ start' = [start EXCEPT ![s] = EmptyFolder(fs, OutDir)]
    /\ UNCHANGED <<literal, fs, root, first>>

\* Line 177: os.makedirs(output_folder), which raises if the folder is there.
MkRoot(s) ==
    /\ pc[s] = "MkRoot"
    /\ LET made == makedirs(fs, output_folder, FALSE) IN
       /\ fs' = made.disk
       /\ start' = [start EXCEPT ![s] = EmptyFolder(made.disk, OutDir)]
       /\ IF made.err # ""
          THEN /\ shown' = [shown EXCEPT ![s] = @ \cup {"Error"}]
               /\ pc' = [pc EXCEPT ![s] = "Ending"]
          ELSE /\ shown' = shown
               /\ pc' = [pc EXCEPT ![s] = AfterLoop(app_code[s], 1)]
    /\ UNCHANGED <<literal, app_code, idx, zip_file, walking, opened, making, zipped, offered,
                   apk_path, outcome, builds, root, first>>

\* The loop as it would be if a raise inside it were caught and shown there:
\* the run goes on to the archive.
Materialize_GoesOn(s) ==
    /\ pc[s] = "Materializing"
    /\ LET wrote == WriteEntry(fs, output_folder, app_code[s][idx[s]]) IN
       /\ fs' = wrote.disk
       /\ IF wrote.err # ""
          THEN /\ shown' = [shown EXCEPT ![s] = @ \cup {"Error"}]
               /\ pc' = [pc EXCEPT ![s] = "Archiving"]
               /\ idx' = idx
          ELSE /\ shown' = shown
               /\ pc' = [pc EXCEPT ![s] = AfterLoop(app_code[s], idx[s] + 1)]
               /\ idx' = [idx EXCEPT ![s] = @ + 1]
    /\ UNCHANGED <<literal, app_code, zip_file, walking, opened, making, zipped, offered,
                   apk_path, outcome, builds, start, root, first>>

\* Lines 14-18 within line 180, with no other session running: one entry of
\* the FileSet; a raise goes to line 213.
Materialize(s) ==
    /\ pc[s] = "Materializing"
    /\ LET wrote == WriteEntry(fs, output_folder, app_code[s][idx[s]]) IN
       /\ fs' = wrote.disk
       /\ IF wrote.err # ""
          THEN /\ shown' = [shown EXCEPT ![s] = @ \cup {"Error"}]
               /\ pc' = [pc EXCEPT ![s] = "Ending"]
               /\ idx' = idx
          ELSE /\ shown' = shown
               /\ pc' = [pc EXCEPT ![s] = AfterLoop(app_code[s], idx[s] + 1)]
               /\ idx' = [idx EXCEPT ![s] = @ + 1]
    /\ UNCHANGED <<literal, app_code, zip_file, walking, opened, making, zipped, offered,
                   apk_path, outcome, builds, start, root, first>>

\* Lines 183-191, with no other session running: the archive and its
\* download button.
Archive(s) ==
    /\ pc[s] = "Archiving"
    /\ zip_file' = [zip_file EXCEPT ![s] = create_zip_file(fs, output_folder)]
    /\ zipped' = [zipped EXCEPT ![s] = TRUE]
    /\ shown' = [shown EXCEPT ![s] = @ \cup {"Android app generated successfully!"}]
    /\ offered' = [offered EXCEPT ![s] = @ \cup {"zip"}]
    /\ pc' = [pc EXCEPT ![s] = "Building"]
    /\ UNCHANGED <<literal, fs, app_code, idx, walking, opened, making, apk_path, outcome,
                   builds, start, root, first>>

\* What build_apk returned, and the st.error it showed.
BuildResult(s, res, out) ==
    /\ apk_path' = [apk_path EXCEPT ![s] = res.ret]
    /\ shown' = [shown EXCEPT ![s] = IF res.msg = "" THEN @ ELSE @ \cup {res.msg}]
    /\ outcome' = [outcome EXCEPT ![s] = out]
    /\ pc' = [pc EXCEPT ![s] = "Delivering"]

\* Lines 194-195, with no other session running: subprocess.run raises at
\* once if the command is not there or cannot be executed; if the command
\* runs, it leaves the folder as it will, and the call ends with an exit code
\* or by raising; then build_apk looks at the exit code and for the artifact.
Build(s) ==
    /\ pc[s] = "Building"
    /\ \E out \in BuildOutcomes, disk \in Leavings(fs, output_folder) :
          /\ ~gradlew_found(fs, output_folder) => (out = "raise" /\ disk = fs)
          /\ fs' = disk
          /\ BuildResult(s, build_apk(disk, output_folder, out), out)
    /\ builds' = [builds EXCEPT ![s] = @ + 1]
    /\ UNCHANGED <<literal, app_code, idx, zip_file, walking, opened, making, zipped, offered,
                   start, root, first>>

\* Lines 196-210: the APK's download button when build_apk returned a path.
Deliver(s) ==
    /\ pc[s] = "Delivering"
    /\ offered' = [offered EXCEPT ![s] =
                      IF apk_path[s] # NoPath THEN @ \cup {"apk"} ELSE @]
    /\ pc' = [pc EXCEPT ![s] = "Ending"]
    /\ UNCHANGED <<literal, fs, app_code, idx, zip_file, walking, opened, making, zipped,
                   apk_path, shown, outcome, builds, start, root, first>>

\* The script run is over: its locals are gone, the session waits for a click.
End(s) ==
    /\ pc[s] = "Ending"
    /\ ClearRun(s, <<>>)
    /\ shown' = [shown EXCEPT ![s] = {}]
    /\ start' = [start EXCEPT ![s] = FALSE]
    /\ pc' = [pc EXCEPT ![s] = "Idle"]
    /\ UNCHANGED <<literal, fs, root, first>>

\* One session, any number of clicks.
Next ==
    \/ GenerateFails(1)
    \/ Click(1)
    \/ MkRoot(1)
    \/ Materialize(1)
    \/ Archive(1)
    \/ Build(1)
    \/ Deliver(1)
    \/ End(1)

Spec == Init /\ [][Next]_vars

----------------------------------------------------------------------------
(* Two sessions run the handler at once on the same working directory.     *)
(* Nothing in the handler excludes one run from the other, so the runs     *)
(* interleave at their system calls: between the lookups and the mkdirs of *)
(* os.makedirs, between the open of a file and the write that fills it,    *)
(* between the listing of one directory and the next, between the stat,    *)
(* the open and each read of a file that goes into the archive, and while  *)
(* the build command runs and writes its files.  Each session runs the     *)
(* handler once, on the same literal.                                      *)

\* The literals the two sessions are run on are taken, in its order, from
\* this one: a file in the folder, a key that names the same file with a
\* shorter text, a file two directories down.
ConcLiteral ==
    << [key |-> <<"b">>, content |-> <<"y", "y">>],
       [key |-> <<"a", Up, "b">>, content |-> <<"x">>],
       [key |-> <<"a", "c", "b">>, content |-> <<"x">>] >>

PlaceIn(L, e) == CHOOSE i \in DOMAIN L : L[i] = e

ConcFileSets ==
    { F \in UNION { [1..k -> { ConcLiteral[j] : j \in DOMAIN ConcLiteral }] :
                      k \in 0..MaxConcEntries } :
        \A i, j \in DOMAIN F :
            i < j => PlaceIn(ConcLiteral, F[i]) < PlaceIn(ConcLiteral, F[j]) }

InitConc ==
    /\ literal \in ConcFileSets
    /\ Boot

\* A raise inside the try block: line 213 shows it and the run is over.
Raise(s) ==
    /\ shown' = [shown EXCEPT ![s] = @ \cup {"Error"}]
    /\ pc' = [pc EXCEPT ![s] = "Ending"]

\* Lines 15-16 for the entry at idx: the argument of os.makedirs.
Target(s) == dirname(path_join(output_folder, app_code[s][idx[s]].key))

\* The call of os.makedirs session s is in: the one of line 16 when the turn
\* of the loop begins.
MakingOf(s) ==
    IF pc[s] = "Materializing" THEN [NoMaking EXCEPT !.names = <<Target(s)>>] ELSE making[s]

\* The innermost call of os.makedirs returns.  The call that made it goes on
\* to its own mkdir; when it is the call of line 16, line 17 is next.
Returns(s) ==
    /\ shown' = shown
    /\ IF Len(making[s].names) = 1
       THEN /\ making' = [making EXCEPT ![s] = NoMaking]
            /\ pc' = [pc EXCEPT ![s] = "Opening"]
       ELSE /\ making' = [making EXCEPT ![s] =
                             [names |-> Front(making[s].names), rose |-> TRUE, err |-> ""]]
            /\ pc' = [pc EXCEPT ![s] = "Making"]

\* The innermost call of os.makedirs raises err.  The call that made it
\* passes over a FileExistsError and goes on; any other error, and any error
\* of the call of line 16, goes to line 213.
Fails(s, err) ==
    IF Len(making[s].names) > 1 /\ err = "EEXIST"
    THEN Returns(s)
    ELSE /\ making' = [making EXCEPT ![s] = NoMaking]
         /\ Raise(s)

\* os.makedirs: head and tail are split off the name without the slash at
\* its end and the head is looked up; if it is missing the call is made again
\* for the head.
LookUp(s) ==
    /\ pc[s] \in {"Materializing", "Looking"}
    /\ \E m \in {MakingOf(s)} :
          \E head \in {Front(Strip(Last(m.names)))} :
             IF head # <<>> /\ ~path_exists(fs, head)
             THEN /\ making' = [making EXCEPT ![s] = [m EXCEPT !.names = Append(@, head)]]
                  /\ pc' = [pc EXCEPT ![s] = "Looking"]
             ELSE /\ making' = [making EXCEPT ![s] = m]
                  /\ pc' = [pc EXCEPT ![s] = "Making"]
    /\ UNCHANGED <<literal, fs, app_code, idx, zip_file, walking, opened, zipped, offered,
                   apk_path, shown, outcome, builds, start, root, first>>

\* os.makedirs: the mkdir of the name, left out for a name whose tail is "."
\* when the call has made the head.
MakeDir(s) ==
    /\ pc[s] = "Making"
    /\ \E name \in {Last(making[s].names)} :
          IF making[s].rose /\ Last(Strip(name)) = Dot
          THEN fs' = fs /\ Returns(s)
          ELSE \E m \in {mkdir(fs, name)} :
                  /\ fs' = m.disk
                  /\ IF m.err = ""
                     THEN Returns(s)
                     ELSE /\ making' = [making EXCEPT ![s].err = m.err]
                          /\ pc' = [pc EXCEPT ![s] = "Checking"]
                          /\ shown' = shown
    /\ UNCHANGED <<literal, app_code, idx, zip_file, walking, opened, zipped, offered,
                   apk_path, outcome, builds, start, root, first>>

\* os.makedirs: the mkdir has failed; with exist_ok set the error is passed
\* over if the name is a directory by now.
CheckDir(s) ==
    /\ pc[s] = "Checking"
    /\ IF path_isdir(fs, Last(making[s].names))
       THEN Returns(s)
       ELSE Fails(s, making[s].err)
    /\ UNCHANGED <<literal, fs, app_code, idx, zip_file, walking, opened, zipped, offered,
                   apk_path, outcome, builds, start, root, first>>

\* The step as it would be if the handler took a lock on the output folder
\* for the length of a run: it waits while the other session is in its run.
OpenFile_Locked(s) ==
    /\ pc[s] = "Opening"
    /\ \A t \in Sessions \ {s} : pc[t] \in {"Idle", "Ending"}
    /\ \E o \in {open_w(fs, path_join(output_folder, app_code[s][idx[s]].key))} :
       /\ fs' = o.disk
       /\ opened' = [opened EXCEPT ![s] = o.at]
       /\ IF o.err # ""
          THEN Raise(s)
          ELSE /\ pc' = [pc EXCEPT ![s] = "Writing"]
               /\ shown' = shown
    /\ UNCHANGED <<literal, app_code, idx, zip_file, walking, making, zipped, offered,
                   apk_path, outcome, builds, start, root, first>>

\* Line 17: the file is created or cut to nothing.
OpenFile(s) ==
    /\ pc[s] = "Opening"
    /\ \E o \in {open_w(fs, path_join(output_folder, app_code[s][idx[s]].key))} :
       /\ fs' = o.disk
       /\ opened' = [opened EXCEPT ![s] = o.at]
       /\ IF o.err # ""
          THEN Raise(s)
          ELSE /\ pc' = [pc EXCEPT ![s] = "Writing"]
               /\ shown' = shown
    /\ UNCHANGED <<literal, app_code, idx, zip_file, walking, making, zipped, offered,
                   apk_path, outcome, builds, start, root, first>>

\* Line 18 and the end of the with block: the text reaches the file; the loop
\* goes to its next entry.
WriteFile(s) ==
    /\ pc[s] = "Writing"
    /\ fs' = write_close(fs, opened[s], app_code[s][idx[s]].content)
    /\ opened' = [opened EXCEPT ![s] = NoNode]
    /\ idx' = [idx EXCEPT ![s] = @ + 1]
    /\ pc' = [pc EXCEPT ![s] = AfterLoop(app_code[s], idx[s] + 1)]
    /\ UNCHANGED <<literal, app_code, zip_file, walking, making, zipped, offered,
                   apk_path, shown, outcome, builds, start, root, first>>

\* The walk of session s: not begun when the run is at line 183.
WalkOf(s) ==
    IF pc[s] = "Archiving" THEN WalkInit(fs, output_folder) ELSE walking[s]

\* The walk has gone on to w and the archive to zip.  When nothing is left
\* to list or to read, create_zip_file returns and lines 184-191 show the
\* download button.
WalkOn(s, w, zip) ==
    /\ zip_file' = [zip_file EXCEPT ![s] = zip]
    /\ walking' = [walking EXCEPT ![s] = w]
    /\ IF WalkDone(w)
       THEN /\ zipped' = [zipped EXCEPT ![s] = TRUE]
            /\ shown' = [shown EXCEPT ![s] =
                            @ \cup {"Android app generated successfully!"}]
            /\ offered' = [offered EXCEPT ![s] = @ \cup {"zip"}]
            /\ pc' = [pc EXCEPT ![s] = "Building"]
       ELSE /\ pc' = [pc EXCEPT ![s] = "Walking"]
            /\ UNCHANGED <<zipped, shown, offered>>
    /\ UNCHANGED <<literal, fs, app_code, idx, opened, making, apk_path, outcome, builds,
                   start, root, first>>

\* Line 24: os.walk lists the next directory, the output folder first.
ListDir(s) ==
    /\ pc[s] \in {"Archiving", "Walking"}
    /\ WalkOf(s).files = {}
    /\ IF WalkOf(s).stack = <<>>
       THEN pc[s] = "Archiving" /\ WalkOn(s, WalkOf(s), zip_file[s])
       ELSE \E d \in Last(WalkOf(s).stack) :
               \E w \in {WalkList(fs, WalkOf(s), d)} : WalkOn(s, w, zip_file[s])

\* Lines 25-28, up to the os.stat at the start of zipf.write: the next file
\* of the directory, its path and its entry name.
StatFile(s) ==
    /\ pc[s] = "Walking"
    /\ \E n \in walking[s].files :
          walking' = [walking EXCEPT ![s] = [@ EXCEPT !.files = @ \ {n},
                                                      !.file = n, !.data = NoText]]
    /\ pc' = [pc EXCEPT ![s] = "Adding"]
    /\ UNCHANGED <<literal, fs, app_code, idx, zip_file, opened, making, zipped, offered,
                   apk_path, shown, outcome, builds, start, root, first>>

\* Line 28, zipf.write: the file is opened to be read.
OpenToRead(s) ==
    /\ pc[s] = "Adding"
    /\ pc' = [pc EXCEPT ![s] = "Reading"]
    /\ UNCHANGED <<literal, fs, app_code, idx, zip_file, walking, opened, making, zipped,
                   offered, apk_path, shown, outcome, builds, start, root, first>>

\* Line 28, zipf.write: one read, at the offset the reads before it have
\* come to, of what the file holds now.  The read that returns nothing ends
\* the entry.
ReadChunk(s) ==
    /\ pc[s] = "Reading"
    /\ \E chunk \in {Chunk(fs[walking[s].file], Len(walking[s].data))} :
          IF chunk # <<>>
          THEN /\ walking' = [walking EXCEPT ![s].data = @ \o chunk]
               /\ UNCHANGED <<literal, fs, pc, app_code, idx, zip_file, opened, making, zipped,
                              offered, apk_path, shown, outcome, builds, start, root,
                              first>>
          ELSE WalkOn(s, [walking[s] EXCEPT !.file = NoNode, !.data = NoText],
                      zip_file[s] (+) SetToBag({[arcname |->
                                                   relpath(walking[s].file,
                                                           Resolve(fs, output_folder).at),
                                                 data |-> walking[s].data]}))

\* Line 36: subprocess.run starts the command, or raises at once because
\* the command is not there or cannot be executed.
StartBuild(s) ==
    /\ pc[s] = "Building"
    /\ builds' = [builds EXCEPT ![s] = @ + 1]
    /\ \E runs \in BOOLEAN :
          /\ runs => gradlew_found(fs, output_folder)
          /\ IF runs
             THEN /\ pc' = [pc EXCEPT ![s] = "Waiting"]
                  /\ UNCHANGED <<apk_path, shown, outcome>>
             ELSE BuildResult(s, build_apk(fs, output_folder, "raise"), "raise")
    /\ UNCHANGED <<literal, fs, app_code, idx, zip_file, walking, opened, making, zipped,
                   offered, start, root, first>>

\* The command, while build_apk waits for it, creates one of its files.
CommandCreates(s) ==
    /\ pc[s] = "Waiting"
    /\ \E rel \in CommandFiles : fs' = CreateFile(fs, output_folder, rel)
    /\ UNCHANGED <<literal, pc, app_code, idx, zip_file, walking, opened, making, zipped,
                   offered, apk_path, shown, outcome, builds, start, root, first>>

\* The command, while build_apk waits for it, writes one of its files that
\* is there.
CommandFills(s) ==
    /\ pc[s] = "Waiting"
    /\ \E rel \in CommandFiles :
          /\ path_exists(fs, path_join(output_folder, rel))
          /\ fs' = FillFile(fs, output_folder, rel)
    /\ UNCHANGED <<literal, pc, app_code, idx, zip_file, walking, opened, making, zipped,
                   offered, apk_path, shown, outcome, builds, start, root, first>>

\* Lines 36-50: the command has ended and subprocess.run returns its exit
\* code, or raises on its output; build_apk looks at the exit code and for
\* the artifact, whoever left it.
CommandExits(s) ==
    /\ pc[s] = "Waiting"
    /\ \E out \in BuildOutcomes :
          BuildResult(s, build_apk(fs, output_folder, out), out)
    /\ UNCHANGED <<literal, fs, app_code, idx, zip_file, walking, opened, making, zipped,
                   offered, builds, start, root, first>>

\* A step of session s's run.
RunStep(s) ==
    \/ MkRoot(s)
    \/ LookUp(s)
    \/ MakeDir(s)
    \/ CheckDir(s)
    \/ OpenFile(s)
    \/ WriteFile(s)
    \/ ListDir(s)
    \/ StatFile(s)
    \/ OpenToRead(s)
    \/ ReadChunk(s)
    \/ StartBuild(s)
    \/ CommandCreates(s)
    \/ CommandFills(s)
    \/ CommandExits(s)
    \/ Deliver(s)

NextConc ==
    \E s \in Sessions :
        \/ GenerateFails(s)
        \/ Click(s)
        \/ RunStep(s)

SpecConc == InitConc /\ [][NextConc]_vars

----------------------------------------------------------------------------
(* The two file helpers called directly, as a test of them would: some     *)
(* FileSet is written first to leave a tree behind, then the FileSet under *)
(* test is written twice, then some folder is zipped.                      *)

\* create_file_structure as one call: the loop over the entries in order,
\* left at the first raise.
RECURSIVE WriteFrom(_, _, _, _)
WriteFrom(disk, folder, F, i) ==
    IF i > Len(F) THEN [err |-> "", disk |-> disk]
    ELSE LET wrote == WriteEntry(disk, folder, F[i]) IN
         IF wrote.err # "" THEN wrote
         ELSE WriteFrom(wrote.disk, folder, F, i + 1)

create_file_structure(disk, folder, F) == WriteFrom(disk, folder, F, 1)

\* The keys of the FileSets that leave the tree behind: files at two depths,
\* inside and outside the folder.
SetupKeys == { <<"a">>, <<"b">>, <<"a", "b">>, <<Up, Up, "a">>, <<"a", Up, "b">> }

SetupFileSets ==
    { F \in FileSetsUpTo(MaxSetupEntries) : \A i \in DOMAIN F : F[i].key \in SetupKeys }

\* The folders create_zip_file is tried on: the output folder, a path below
\* it that may be a directory, a file or missing, and a path never created.
Roots == { output_folder, <<"generated_app", "a">>, <<"generated_app", "b">>,
           <<"missing">> }

Told(err) == IF err = "" THEN "returned" ELSE err

DrvInit ==
    /\ fs = FreshDisk
    /\ literal = <<>>
    /\ pc = [s \in Sessions |-> IF s = 1 THEN "Setup" ELSE "Idle"]
    /\ \E F \in FileSets, F0 \in SetupFileSets :
          app_code = [s \in Sessions |-> IF s = 1 THEN F ELSE F0]
    /\ idx = [s \in Sessions |-> 1]
    /\ zip_file = [s \in Sessions |-> EmptyBag]
    /\ walking = [s \in Sessions |-> NoWalk]
    /\ opened = [s \in Sessions |-> NoNode]
    /\ making = [s \in Sessions |-> NoMaking]
    /\ zipped = [s \in Sessions |-> FALSE]
    /\ offered = [s \in Sessions |-> {}]
    /\ apk_path = [s \in Sessions |-> NoPath]
    /\ shown = [s \in Sessions |-> {}]
    /\ outcome = [s \in Sessions |-> "none"]
    /\ builds = [s \in Sessions |-> 0]
    /\ start = [s \in Sessions |-> FALSE]
    /\ root = output_folder
    /\ first = FreshDisk

\* The tree left behind by an earlier FileSet, app_code[2].
DrvSetup ==
    /\ pc[1] = "Setup"
    /\ LET made == create_file_structure(fs, output_folder, app_code[2]) IN
       /\ fs' = made.disk
       /\ start' = [start EXCEPT ![1] = EmptyFolder(made.disk, OutDir)]
    /\ pc' = [pc EXCEPT ![1] = "First"]
    /\ UNCHANGED <<literal, app_code, idx, zip_file, walking, opened, making, zipped, offered, apk_path, shown,
                   outcome, builds, root, first>>

\* create_file_structure(app_code[1], output_folder), the first time.
DrvFirst ==
    /\ pc[1] = "First"
    /\ LET made == create_file_structure(fs, output_folder, app_code[1]) IN
       /\ fs' = made.disk
       /\ first' = made.disk
       /\ outcome' = [outcome EXCEPT ![1] = Told(made.err)]
       /\ pc' = [pc EXCEPT ![1] = IF made.err = "" THEN "Second" ELSE "Zipping"]
    /\ UNCHANGED <<literal, app_code, idx, zip_file, walking, opened, making, zipped, offered, apk_path, shown,
                   builds, start, root>>

\* The same call again.
DrvSecond ==
    /\ pc[1] = "Second"
    /\ LET made == create_file_structure(fs, output_folder, app_code[1]) IN
       /\ fs' = made.disk
       /\ outcome' = [outcome EXCEPT ![2] = Told(made.err)]
    /\ pc' = [pc EXCEPT ![1] = "Zipping"]
    /\ UNCHANGED <<literal, app_code, idx, zip_file, walking, opened, making, zipped, offered, apk_path, shown,
                   builds, start, root, first>>

\* create_zip_file(r) for some folder r.
DrvZip ==
    /\ pc[1] = "Zipping"
    /\ \E r \in Roots :
         /\ root' = r
         /\ zip_file' = [zip_file EXCEPT ![1] = create_zip_file(fs, r)]
    /\ zipped' = [zipped EXCEPT ![1] = TRUE]
    /\ pc' = [pc EXCEPT ![1] = "Stopped"]
    /\ UNCHANGED <<literal, fs, app_code, idx, walking, opened, making, offered, apk_path, shown, outcome,
                   builds, start, first>>

DrvNext == DrvSetup \/ DrvFirst \/ DrvSecond \/ DrvZip

DrvSpec == DrvInit /\ [][DrvNext]_vars

----------------------------------------------------------------------------
(* What the properties are stated with. *)

KeysOf(F) == { F[i].key : i \in DOMAIN F }

\* A key that is a path of names: relative, with no "..", no "." and no
\* empty component.
PlainKey(k) == k # <<>> /\ \A i \in DOMAIN k : k[i] \notin {Up, Dot, NoName, Root}
PlainKeys(F) == \A i \in DOMAIN F : PlainKey(F[i].key)

\* A key without the components that stay in the directory, "." and the
\* empty one: "./a" is the path "a".
RECURSIVE Plainly(_)
Plainly(k) ==
    IF k = <<>> THEN <<>>
    ELSE IF Head(k) \in {Dot, NoName} THEN Plainly(Tail(k))
    ELSE <<Head(k)>> \o Plainly(Tail(k))

\* k names a directory on the way to l.
DirPrefix(k, l) == Len(k) < Len(l) /\ SubSeq(l, 1, Len(k)) = k
PrefixFree(F) == \A i, j \in DOMAIN F : ~DirPrefix(F[i].key, F[j].key)

\* The key of entry i is a directory prefix of the key of an entry before
\* it, or has one of them as a directory prefix.
Clashes(F, i) ==
    \E j \in 1..(i - 1) :
        DirPrefix(F[j].key, F[i].key) \/ DirPrefix(F[i].key, F[j].key)

\* The regular files below a folder, and their paths relative to it.
FilesBelow(disk, top) == { n \in DOMAIN disk : disk[n] # DirMark /\ IsBelow(n, top) }
PathsBelow(disk, top) ==
    { SubSeq(n, Len(top) + 1, Len(n)) : n \in FilesBelow(disk, top) }

\* The node a key names, read as a path from the output folder.
Named(disk, key) == Resolve(disk, path_join(output_folder, key))

SameFile(disk, k, l) ==
    /\ Named(disk, k).err = "" /\ Named(disk, l).err = ""
    /\ Named(disk, k).at = Named(disk, l).at

\* Among the first n entries of F, the last one that names the file entry i names.
LastNaming(disk, F, i, n) ==
    CHOOSE j \in 1..n :
        /\ SameFile(disk, F[i].key, F[j].key)
        /\ \A k \in 1..n : SameFile(disk, F[i].key, F[k].key) => k <= j

\* Each of the first n entries of F names a regular file that holds the text of
\* the last of them naming it.
Written(disk, F, n) ==
    \A i \in 1..n :
        /\ Named(disk, F[i].key).err = ""
        /\ IsFileNode(disk, Named(disk, F[i].key).at)
        /\ disk[Named(disk, F[i].key).at] = F[LastNaming(disk, F, i, n)].content

\* The call of create_file_structure of session s's run has raised.
RaisedInLoop(s) == pc[s] = "Ending" /\ idx[s] <= Len(app_code[s])
\* It has just returned.
LoopReturned(s) == pc[s] = "Archiving"

Entry(k, c) == [arcname |-> k, data |-> c]
EntriesOf(z) == BagToSet(z)
NamesOf(z) == { e.arcname : e \in BagToSet(z) }
AsEntries(F) == { Entry(F[i].key, F[i].content) : i \in DOMAIN F }
Snapshot(disk, top) ==
    { Entry(p, disk[top \o p]) : p \in PathsBelow(disk, top) }

----------------------------------------------------------------------------
(* The claims. *)

\* C1, as stated, on FileSets whose keys are paths of names (relative, no
\* "..", "." or empty component), which include those where one key is a
\* directory prefix of another: once the call of create_file_structure on an
\* empty output folder has ended, the regular files below the folder are
\* exactly the keys of the FileSet, each holding the FileSet's text for its
\* key.
C1_Original ==
    \A s \in Sessions :
        (/\ LoopReturned(s) \/ RaisedInLoop(s)
         /\ start[s]
         /\ PlainKeys(app_code[s]))
        => /\ PathsBelow(fs, OutDir) = KeysOf(app_code[s])
           /\ Snapshot(fs, OutDir) = AsEntries(app_code[s])

\* C1, amended: on FileSets whose keys are paths of names and on an empty
\* output folder, create_file_structure returns exactly when no key is a
\* directory prefix of another, and the regular files below the folder are
\* then exactly the keys, each holding the FileSet's text for its key;
\* otherwise it raises at the first entry whose key is a directory prefix of
\* the key of an entry before it or has one as a directory prefix, and the
\* regular files below the folder are exactly the keys of the entries before
\* that one, with their texts.
C1_Amended ==
    \A s \in Sessions :
        (start[s] /\ PlainKeys(app_code[s])) =>
            /\ LoopReturned(s) =>
                  /\ PrefixFree(app_code[s])
                  /\ PathsBelow(fs, OutDir) = KeysOf(app_code[s])
                  /\ Snapshot(fs, OutDir) = AsEntries(app_code[s])
            /\ RaisedInLoop(s) =>
                  /\ ~PrefixFree(app_code[s])
                  /\ Clashes(app_code[s], idx[s])
                  /\ \A i \in 1..(idx[s] - 1) : ~Clashes(app_code[s], i)
                  /\ Snapshot(fs, OutDir) =
                        AsEntries(SubSeq(app_code[s], 1, idx[s] - 1))

\* A run on an empty folder has written two plain keys, one of them nested.
C1_Witness ==
    \E s \in Sessions :
        /\ LoopReturned(s)
        /\ start[s]
        /\ PlainKeys(app_code[s])
        /\ KeysOf(app_code[s]) = { <<"a", "b">>, <<"b">> }
        /\ Cardinality(FilesBelow(fs, OutDir)) = 2

\* C2: the archive create_zip_file returns for the output folder has exactly
\* one entry for each regular file below the folder, named by the file's path
\* relative to the folder and holding its text, and no other entry.
C2_ArchiveMatchesTree ==
    \A s \in Sessions :
        pc[s] = "Building" =>
            /\ NamesOf(zip_file[s]) = PathsBelow(fs, OutDir)
            /\ BagCardinality(zip_file[s]) = Cardinality(PathsBelow(fs, OutDir))
            /\ EntriesOf(zip_file[s]) = Snapshot(fs, OutDir)

\* An archive of a tree with files at three depths: one at the top, one in a
\* subdirectory, and the artifact an earlier build left.
C2_Witness ==
    \E s \in Sessions :
        /\ pc[s] = "Building"
        /\ { <<"b">>, <<"a", "b">>, ApkRel } \subseteq NamesOf(zip_file[s])

\* C3: the caller of build_apk can tell a build that exited nonzero from one
\* that exited 0 and left no artifact: what build_apk returned for the first
\* is not what it returns for the second.
C3_OutcomesTellApart ==
    \A s \in Sessions :
        (pc[s] = "Delivering" /\ outcome[s] = "nonzero")
        => apk_path[s] # build_apk(FreshDisk, output_folder, "zero").ret

\* C4: create_zip_file on a folder that does not exist does not return an
\* archive.
C4_MissingRootReported ==
    (pc[1] = "Stopped" /\ ~path_exists(fs, root)) => ~zipped[1]

\* C5: no regular file is ever created outside the output folder.
C5_NothingOutside ==
    \A n \in DOMAIN fs : fs[n] # DirMark => IsBelow(n, OutDir)

\* C6: when create_file_structure(F, D) has returned, the same call made
\* again returns too and leaves the tree as the first call left it.
C6_Idempotent ==
    (pc[1] \in {"Zipping", "Stopped"} /\ outcome[1] = "returned")
    => (outcome[2] = "returned" /\ fs = first)

\* The second call has returned on a tree in which the first call had
\* replaced the text of a file that an earlier FileSet had left there.
C6_Witness ==
    /\ pc[1] = "Zipping"
    /\ outcome[1] = "returned" /\ outcome[2] = "returned"
    /\ Len(app_code[1]) = 2
    /\ ~start[1]
    /\ \E i \in DOMAIN app_code[1], j \in DOMAIN app_code[2] :
          /\ PlainKey(app_code[2][j].key)
          /\ app_code[1][i].key = app_code[2][j].key
          /\ app_code[1][i].content # app_code[2][j].content
          /\ fs[Named(fs, app_code[1][i].key).at] = app_code[1][i].content

\* The order of the stages of a run.
StageOrder ==
    { <<"Idle", "MkRoot">>, <<"Idle", "Materializing">>, <<"Idle", "Archiving">>,
      <<"Idle", "Ending">>,
      <<"MkRoot", "Materializing">>, <<"MkRoot", "Archiving">>, <<"MkRoot", "Ending">>,
      <<"Materializing", "Archiving">>, <<"Materializing", "Ending">>,
      <<"Archiving", "Building">>, <<"Building", "Delivering">>,
      <<"Delivering", "Ending">>, <<"Ending", "Idle">> }

\* C7: in a run the stages follow one another in the order materialize,
\* archive, build: the archive is started only when every entry of the
\* FileSet has been written, the build only when the archive has been
\* returned, the build is started at most once, and from any outcome of the
\* build the run can only go on to its end and back to Idle, which it is
\* never prevented from doing.
C7_StagesInOrder ==
    /\ [][\A s \in Sessions :
            /\ pc'[s] # pc[s] => <<pc[s], pc'[s]>> \in StageOrder
            /\ (pc'[s] = "Archiving" /\ pc[s] # "Archiving") =>
                  /\ idx'[s] = Len(app_code'[s]) + 1
                  /\ Written(fs', app_code'[s], Len(app_code'[s]))
                  /\ ~zipped'[s] /\ builds'[s] = 0
            /\ (zipped'[s] /\ ~zipped[s]) => pc[s] = "Archiving"
            /\ builds'[s] # builds[s] =>
                  \/ builds'[s] = 0
                  \/ /\ builds[s] = 0 /\ builds'[s] = 1
                     /\ pc[s] = "Building" /\ zipped[s]
            /\ pc[s] = "Delivering" =>
                  /\ outcome[s] \in BuildOutcomes
                  /\ pc'[s] \in {"Delivering", "Ending"}
         ]_vars
    /\ [](pc[1] = "Delivering" => ENABLED Deliver(1))
    /\ [](pc[1] = "Ending" => ENABLED End(1))

\* A run of a FileSet of two entries has come to its end after a build that
\* exited 0 and left no artifact.
C7_Witness ==
    \E s \in Sessions :
        /\ pc[s] = "Ending"
        /\ Len(app_code[s]) = 2 /\ idx[s] = 3
        /\ zipped[s] /\ builds[s] = 1
        /\ outcome[s] = "zero" /\ apk_path[s] = NoPath

\* C8: when create_file_structure raises partway, the files written for the
\* entries before the failing one are still there with the text written, the
\* error is shown, the run ends there: no archive is made or offered and the
\* build is not run.
C8_PartialTreeStays ==
    \A s \in Sessions :
        ("Error" \in shown[s] /\ idx[s] <= Len(app_code[s])) =>
            /\ pc[s] = "Ending"
            /\ Written(fs, app_code[s], idx[s] - 1)
            /\ ~zipped[s] /\ zip_file[s] = EmptyBag /\ offered[s] = {}
            /\ builds[s] = 0 /\ outcome[s] = "none" /\ apk_path[s] = NoPath

\* The second entry of a FileSet has raised after the first one wrote its
\* file.
C8_Witness ==
    \E s \in Sessions :
        /\ pc[s] = "Ending" /\ "Error" \in shown[s]
        /\ idx[s] = 2 /\ Len(app_code[s]) = 2
        /\ LET n == Named(fs, app_code[s][1].key).at IN
              /\ IsFileNode(fs, n)
              /\ fs[n] = app_code[s][1].content

\* C9: a call of create_file_structure leaves every regular file below the
\* output folder whose path is not a key of the FileSet being written as it
\* was ("./b" and "b" being the same path).
C9_OnlyKeysTouched ==
    [][pc[1] \in {"First", "Second"} =>
          \A n \in FilesBelow(fs, OutDir) :
              relpath(n, OutDir) \notin { Plainly(k) : k \in KeysOf(app_code[1]) }
              => (n \in DOMAIN fs' /\ fs'[n] = fs[n])
      ]_vars

\* The texts the file at a node is given by the handler and the deployment:
\* those of the entries of the literal that name it, and the build command's
\* own text where the deployment has put it.
Given(node) ==
    { literal[i].content :
        i \in { j \in DOMAIN literal : Named(fs, literal[j].key).err = ""
                                       /\ Named(fs, literal[j].key).at = node } }
    \cup (IF node = OutDir \o GradlewRel THEN {GradlewText} ELSE {})

\* Every character of data stands where a text of texts has it.
MixOf(data, texts) ==
    \A p \in 1..Len(data) : \E u \in texts : p <= Len(u) /\ u[p] = data[p]

\* Session t's run has opened a file below the folder to write it.
HasWritten(t) == idx[t] > 1 \/ pc[t] = "Writing"

\* C10: the sessions share the output folder and nothing makes one run wait
\* for the other: a session in its run can always take its next step,
\* wherever the other session stands.  As long as no build command has been
\* started, the archive a session is handed has one entry per name, each the
\* name of a file below the shared folder, and an entry holds a text given
\* to its file, or, only where the other session has been writing, a mix of
\* them: at each offset a character that a text given to the file has at
\* that offset, down to nothing at all.
C10_SharedWithoutExclusion ==
    \A s \in Sessions :
        /\ pc[s] \in {"Materializing", "Looking"} => ENABLED LookUp(s)
        /\ pc[s] = "Making" => ENABLED MakeDir(s)
        /\ pc[s] = "Checking" => ENABLED CheckDir(s)
        /\ pc[s] = "Opening" => ENABLED OpenFile(s)
        /\ pc[s] = "Writing" => ENABLED WriteFile(s)
        /\ pc[s] \in {"Archiving", "Walking"} => ENABLED (ListDir(s) \/ StatFile(s))
        /\ pc[s] = "Adding" => ENABLED OpenToRead(s)
        /\ pc[s] = "Reading" => ENABLED ReadChunk(s)
        /\ pc[s] = "Building" => ENABLED StartBuild(s)
        /\ pc[s] = "Waiting" => ENABLED CommandExits(s)
        /\ (zipped[s] /\ \A t \in Sessions : builds[t] = 0) =>
              \A e \in EntriesOf(zip_file[s]) :
                  /\ CopiesIn(e, zip_file[s]) = 1
                  /\ e.arcname \in PathsBelow(fs, OutDir)
                  /\ \A f \in EntriesOf(zip_file[s]) :
                        f.arcname = e.arcname => f = e
                  /\ \/ e.data \in Given(OutDir \o e.arcname)
                     \/ /\ \E t \in Sessions \ {s} : HasWritten(t)
                        /\ MixOf(e.data, Given(OutDir \o e.arcname))

\* The archive handed to session s is the tree of no moment and not the
\* FileSet: s had written every entry, and its archive holds one file of the
\* literal with its text and another with nothing in it, as session t's open
\* left it, t not having come to its write yet.
C10_Witness ==
    \E s, t \in Sessions :
        /\ s # t
        /\ zipped[s]
        /\ idx[s] = Len(literal) + 1
        /\ pc[t] = "Writing"
        /\ KeysOf(literal) \subseteq NamesOf(zip_file[s])
        /\ \E e, f \in EntriesOf(zip_file[s]) :
              /\ e.arcname \in KeysOf(literal) /\ e.data = NoText
              /\ opened[t] = OutDir \o e.arcname
              /\ f.arcname \in KeysOf(literal) /\ f.data \in Contents

====
